---------------------------- MODULE Spec2Model ----------------------------
(***************************************************************************)
(* pancon: a command line converter between YAML, JSON and TOML.           *)
(*                                                                         *)
(* The model follows src/main.go.  Go strings are sequences of one         *)
(* character strings, so that filepath.Ext, strings.ToLower and e[1:] are  *)
(* computed as the code computes them.  A *Coder is an index into the      *)
(* registry `coders` (0 is the nil pointer); a func value is its name, or  *)
(* "nil".                                                                  *)
(*                                                                         *)
(* src/unnamed/part_000 is an earlier revision of the same program: its    *)
(* coder, guessformat, file and main are those of main.go, without the     *)
(* two nil checks main.go makes after resolving each format.               *)
(***************************************************************************)
EXTENDS Naturals, Sequences, FiniteSets

VARIABLES
    coders,         \* var coders []*Coder
    inputFormat,    \* *inputFormat   (-d)
    outputFormat,   \* *outputFormat  (-e)
    inputFile,      \* *inputFile     (-i)
    outputFile,     \* *outputFile    (-o)
    pc,             \* position of main
    incoder,        \* incoder  *Coder
    outcoder,       \* outcoder *Coder
    infile,         \* infile  *os.File
    outfile,        \* outfile *os.File
    incloser,       \* incloser  func() error
    outcloser,      \* outcloser func() error
    defers,         \* deferred calls of main, last registered first
    data,           \* data map[string]interface{}
    written,        \* what Encode wrote to the output stream
    opened,         \* files opened by os.Open / os.Create
    closed,         \* files on which Close was called
    status,         \* exit status of the process
    diag,           \* the fatal diagnostic: prefix and error
    log,            \* the calls made so far, in order
    cfile,          \* coder(file, format, action): argument file
    cformat,        \*                              argument format
    caction,        \*                              argument action
    cret            \*                              what it returned

mainvars == <<coders, inputFormat, outputFormat, inputFile, outputFile, pc,
              incoder, outcoder, infile, outfile, incloser, outcloser,
              defers, data, written, opened, closed, status, diag, log>>
callvars == <<cfile, cformat, caction, cret>>
vars == <<mainvars, callvars>>

-----------------------------------------------------------------------------
(* Strings *)

Empty == <<>>
Dash == <<"-">>
YAML == <<"y", "a", "m", "l">>
JSON == <<"j", "s", "o", "n">>
TOML == <<"t", "o", "m", "l">>
JS == <<"j", "s">>
YML == <<"y", "m", "l">>
TML == <<"t", "m", "l">>
FOO == <<"f", "o", "o">>

UpperChars == <<"A", "B", "C", "D", "E", "F", "G", "H", "I", "J", "K", "L", "M",
                "N", "O", "P", "Q", "R", "S", "T", "U", "V", "W", "X", "Y", "Z">>
LowerChars == <<"a", "b", "c", "d", "e", "f", "g", "h", "i", "j", "k", "l", "m",
                "n", "o", "p", "q", "r", "s", "t", "u", "v", "w", "x", "y", "z">>

ToLowerChar(c) ==
    IF \E i \in DOMAIN UpperChars : UpperChars[i] = c
    THEN LowerChars[CHOOSE i \in DOMAIN UpperChars : UpperChars[i] = c]
    ELSE c

\* strings.ToLower
ToLower(s) == [i \in DOMAIN s |-> ToLowerChar(s[i])]

\* os.IsPathSeparator
IsPathSeparator(c) == c = "/"

\* filepath.Ext: the suffix beginning at the final dot in the final
\* element of path; empty if there is no dot.
RECURSIVE ExtFrom(_, _)
ExtFrom(path, i) ==
    IF i = 0 \/ IsPathSeparator(path[i]) THEN Empty
    ELSE IF path[i] = "." THEN SubSeq(path, i, Len(path))
    ELSE ExtFrom(path, i - 1)

Ext(path) == ExtFrom(path, Len(path))

-----------------------------------------------------------------------------
(* The registry *)

Nil == "nil"

\* var coders = []*Coder{{"yaml", ...}, {"json", ...}, {"toml", ...}}
Coders ==
    << [Format |-> YAML, Decode |-> "readYAML", Encode |-> "writeYAML"],
       [Format |-> JSON, Decode |-> "readJSON", Encode |-> "writeJSON"],
       [Format |-> TOML, Decode |-> "readTOML", Encode |-> "writeTOML"] >>

\* coderFor: the first coder of the registry with this format, or nil (0).
coderFor(format) ==
    IF \E i \in DOMAIN coders : coders[i].Format = format
    THEN CHOOSE i \in DOMAIN coders :
            /\ coders[i].Format = format
            /\ \A j \in DOMAIN coders : coders[j].Format = format => i <= j
    ELSE 0

\* init(): formats holds the Format of every coder; the flags -d and -e
\* are Enum(formats...).
formats == { coders[i].Format : i \in DOMAIN coders }

-----------------------------------------------------------------------------
(* Errors *)

\* fmt.Errorf: the parts of the message, outermost first, and the string
\* the message carries; the nil error has no message
NoErr == [msg |-> <<>>, arg |-> Empty]
Err(text, arg) == [msg |-> <<text>>, arg |-> arg]
Wrap(prefix, err) == [msg |-> <<prefix>> \o err.msg, arg |-> err.arg]

\* guessformat without strings.ToLower
guessformatKeepCase(file) ==
    LET e0 == Ext(file)
        e1 == IF e0 # Empty THEN Tail(e0) ELSE e0
        e  == IF e1 = JS THEN JSON
              ELSE IF e1 = YML THEN YAML
              ELSE IF e1 = TML THEN TOML
              ELSE e1
    IN  IF coderFor(e) # 0
        THEN [f |-> e, err |-> NoErr]
        ELSE [f |-> Empty, err |-> Err("can not detect format from file %s extension", file)]

\* guessformat
guessformat(file) ==
    LET e0 == ToLower(Ext(file))
        e1 == IF e0 # Empty THEN Tail(e0) ELSE e0
        e  == IF e1 = JS THEN JSON
              ELSE IF e1 = YML THEN YAML
              ELSE IF e1 = TML THEN TOML
              ELSE e1
    IN  IF coderFor(e) # 0
        THEN [f |-> e, err |-> NoErr]
        ELSE [f |-> Empty, err |-> Err("can not detect format from file %s extension", file)]

\* the results of coder; guessed records whether guessformat was called
CoderOK(c, guessed) == [c |-> c, err |-> NoErr, guessed |-> guessed]
CoderErr(err, guessed) == [c |-> 0, err |-> err, guessed |-> guessed]

\* the last lines of coder: the lookup of the format it settled on
coderLookup(format, guessed) ==
    IF coderFor(format) # 0
    THEN CoderOK(coderFor(format), guessed)
    ELSE CoderErr(Err("unknown input format %s", format), guessed)

\* coder with the extension consulted before the explicit format
coderExtensionFirst(file, format, action) ==
    IF file # Empty /\ file # Dash /\ guessformat(file).err = NoErr
    THEN coderLookup(guessformat(file).f, TRUE)
    ELSE IF format = Empty
    THEN CoderErr(Err("format is required when %s", <<action>>), FALSE)
    ELSE coderLookup(format, FALSE)

\* coder with only the empty path taken for a standard stream
coderDashIsFile(file, format, action) ==
    IF format = Empty
    THEN IF file = Empty
         THEN CoderErr(Err("format is required when %s", <<action>>), FALSE)
         ELSE IF guessformat(file).err # NoErr
         THEN CoderErr(Wrap("guessing format", guessformat(file).err), TRUE)
         ELSE coderLookup(guessformat(file).f, TRUE)
    ELSE coderLookup(format, FALSE)

\* coder
coder(file, format, action) ==
    IF format = Empty
    THEN IF file = Empty \/ file = Dash
         THEN CoderErr(Err("format is required when %s", <<action>>), FALSE)
         ELSE IF guessformat(file).err # NoErr
         THEN CoderErr(Wrap("guessing format", guessformat(file).err), TRUE)
         ELSE coderLookup(guessformat(file).f, TRUE)
    ELSE coderLookup(format, FALSE)

-----------------------------------------------------------------------------
(* Files *)

NilFile == [opener |-> "nil", name |-> Empty]
Stdin == [opener |-> "stdin", name |-> Empty]
Stdout == [opener |-> "stdout", name |-> Empty]

\* file with only the empty path taken for a standard stream
fileDashIsPath(name, format, defaultfile, opener, openerOK) ==
    IF name = Empty
    THEN [f |-> defaultfile, closer |-> "noop", err |-> NoErr, called |-> FALSE]
    ELSE IF ~openerOK
    THEN [f |-> NilFile, closer |-> Nil, err |-> Err("opening %s", name), called |-> TRUE]
    ELSE [f |-> [opener |-> opener, name |-> name], closer |-> "close",
          err |-> NoErr, called |-> TRUE]

\* file: openerOK is the answer of the operating system to opener(file);
\* called records whether the opener was called
file(name, format, defaultfile, opener, openerOK) ==
    IF name = Empty \/ name = Dash
    THEN [f |-> defaultfile, closer |-> "noop", err |-> NoErr, called |-> FALSE]
    ELSE IF ~openerOK
    THEN [f |-> NilFile, closer |-> Nil, err |-> Err("opening %s", name), called |-> TRUE]
    ELSE [f |-> [opener |-> opener, name |-> name], closer |-> "close",
          err |-> NoErr, called |-> TRUE]

-----------------------------------------------------------------------------
(* main *)

\* the documents a decoder can produce
Docs == {"empty", "doc1", "doc2"}

Push(e) == log' = Append(log, e)

\* main with both files opened before the output format is resolved
NextPcOpenFirst(p) ==
    CASE p = "parse" -> "incoder"
      [] p = "incoder" -> "openin"
      [] p = "openin" -> "openout"
      [] p = "openout" -> "outcoder"
      [] p = "outcoder" -> "decode"
      [] p = "decode" -> "encode"
      [] p = "encode" -> "return"

\* main with the document encoded before the input is decoded
NextPcEncodeFirst(p) ==
    CASE p = "parse" -> "incoder"
      [] p = "incoder" -> "outcoder"
      [] p = "outcoder" -> "openin"
      [] p = "openin" -> "openout"
      [] p = "openout" -> "encode"
      [] p = "encode" -> "decode"
      [] p = "decode" -> "return"

\* the order of the statements of main
NextPc(p) ==
    CASE p = "parse" -> "incoder"
      [] p = "incoder" -> "outcoder"
      [] p = "outcoder" -> "openin"
      [] p = "openin" -> "openout"
      [] p = "openout" -> "decode"
      [] p = "decode" -> "encode"
      [] p = "encode" -> "return"

\* app.Fatalf, and app.FatalIfError with an error: the diagnostic is
\* printed and the process exits with status 1 (os.Exit: no deferred call
\* runs)
Fatal(prefix, err) ==
    /\ pc' = "exit"
    /\ status' = 1
    /\ diag' = Wrap(prefix, err)

\* FatalIfError that prints the diagnostic and returns
FatalIfErrorReturns(err, prefix) ==
    /\ pc' = NextPc(pc)
    /\ status' = status
    /\ diag' = IF err # NoErr THEN Wrap(prefix, err) ELSE diag

\* app.FatalIfError(err, prefix) as the last statement of a step of main
FatalIfError(err, prefix) ==
    IF err # NoErr
    THEN Fatal(prefix, err)
    ELSE pc' = NextPc(pc) /\ UNCHANGED <<status, diag>>

\* a nil pointer dereference or a call of a nil func: a run time panic,
\* which runs the deferred calls and ends the process with status 2
Panic ==
    /\ pc' = "panic"
    /\ UNCHANGED <<status, diag>>

\* kingpin.MustParse(app.Parse(os.Args[1:])): -d and -e are Enum(formats...)
ParseArgs ==
    /\ pc = "parse"
    /\ IF inputFormat \notin formats \cup {Empty}
       THEN Fatal("parse", Err("enum value must be one of formats, got %s", inputFormat))
       ELSE IF outputFormat \notin formats \cup {Empty}
       THEN Fatal("parse", Err("enum value must be one of formats, got %s", outputFormat))
       ELSE pc' = NextPc(pc) /\ UNCHANGED <<status, diag>>
    /\ UNCHANGED <<coders, inputFormat, outputFormat, inputFile, outputFile,
                   incoder, outcoder, infile, outfile, incloser, outcloser,
                   defers, data, written, opened, closed, log, callvars>>

\* incoder, err := coder(*inputFile, *inputFormat, "reading from stdin")
\* app.FatalIfError(err, "input"); if incoder.Decode == nil { app.Fatalf(...) }
ResolveInput ==
    /\ pc = "incoder"
    /\ LET r == coder(inputFile, inputFormat, "reading from stdin")
       IN  /\ incoder' = r.c
           /\ log' = log \o <<"coder(input)">>
                         \o (IF r.guessed THEN <<"guessformat(input)">> ELSE <<>>)
           /\ IF r.err # NoErr THEN FatalIfError(r.err, "input")
              ELSE IF r.c = 0 THEN Panic
              ELSE IF coders[r.c].Decode = Nil
              THEN Fatal("input format %s not supported for decoding",
                         Err("", coders[r.c].Format))
              ELSE FatalIfError(r.err, "input")
    /\ UNCHANGED <<coders, inputFormat, outputFormat, inputFile, outputFile,
                   outcoder, infile, outfile, incloser, outcloser,
                   defers, data, written, opened, closed, callvars>>

\* outcoder, err := coder(*outputFile, *outputFormat, "writing to stdout")
\* app.FatalIfError(err, "output"); if outcoder.Decode == nil { app.Fatalf(...) }
ResolveOutput ==
    /\ pc = "outcoder"
    /\ LET r == coder(outputFile, outputFormat, "writing to stdout")
       IN  /\ outcoder' = r.c
           /\ log' = log \o <<"coder(output)">>
                         \o (IF r.guessed THEN <<"guessformat(output)">> ELSE <<>>)
           /\ IF r.err # NoErr THEN FatalIfError(r.err, "output")
              ELSE IF r.c = 0 THEN Panic
              ELSE IF coders[r.c].Decode = Nil
              THEN Fatal("output format %s not supported for encoding",
                         Err("", coders[r.c].Format))
              ELSE FatalIfError(r.err, "output")
    /\ UNCHANGED <<coders, inputFormat, outputFormat, inputFile, outputFile,
                   incoder, infile, outfile, incloser, outcloser,
                   defers, data, written, opened, closed, callvars>>

\* infile, incloser, err := file(*inputFile, *inputFormat, os.Stdin, os.Open)
\* app.FatalIfError(err, "opening input"); defer ... incloser() ...
OpenInput ==
    /\ pc = "openin"
    /\ \E openerOK \in BOOLEAN :
         LET r == file(inputFile, inputFormat, Stdin, "os.Open", openerOK)
         IN  /\ infile' = r.f
             /\ incloser' = r.closer
             /\ log' = log \o <<"file(input)">>
                           \o (IF r.called THEN <<"os.Open">> ELSE <<>>)
             /\ opened' = IF r.called /\ r.err = NoErr
                          THEN opened \cup {r.f} ELSE opened
             /\ defers' = IF r.err = NoErr THEN <<"incloser">> \o defers ELSE defers
             /\ FatalIfError(r.err, "opening input")
    /\ UNCHANGED <<coders, inputFormat, outputFormat, inputFile, outputFile,
                   incoder, outcoder, outfile, outcloser,
                   data, written, closed, callvars>>

\* outfile, outcloser, err := file(*outputFile, *outputFormat, os.Stdout, os.Create)
\* app.FatalIfError(err, "opening output"); defer ... outcloser() ...
OpenOutput ==
    /\ pc = "openout"
    /\ \E openerOK \in BOOLEAN :
         LET r == file(outputFile, outputFormat, Stdout, "os.Create", openerOK)
         IN  /\ outfile' = r.f
             /\ outcloser' = r.closer
             /\ log' = log \o <<"file(output)">>
                           \o (IF r.called THEN <<"os.Create">> ELSE <<>>)
             /\ opened' = IF r.called /\ r.err = NoErr
                          THEN opened \cup {r.f} ELSE opened
             /\ defers' = IF r.err = NoErr THEN <<"outcloser">> \o defers ELSE defers
             /\ FatalIfError(r.err, "opening output")
    /\ UNCHANGED <<coders, inputFormat, outputFormat, inputFile, outputFile,
                   incoder, outcoder, infile, incloser,
                   data, written, closed, callvars>>

\* data := map[string]interface{}{}
\* app.FatalIfError(incoder.Decode(&data, infile), "decoding")
\* The decoder reads the input and answers an error or nil; either way it
\* may have stored a document in data.
Decode ==
    /\ pc = "decode"
    /\ IF incoder = 0 \/ infile = NilFile
       THEN Panic /\ UNCHANGED <<data, log>>
       ELSE IF coders[incoder].Decode = Nil
       THEN Panic /\ UNCHANGED <<data, log>>
       ELSE \E ok \in BOOLEAN, doc \in Docs :
              /\ Push("Decode")
              /\ data' = doc
              /\ FatalIfError(IF ok THEN NoErr
                              ELSE Err("%s", coders[incoder].Format), "decoding")
    /\ UNCHANGED <<coders, inputFormat, outputFormat, inputFile, outputFile,
                   incoder, outcoder, infile, outfile, incloser, outcloser,
                   defers, written, opened, closed, callvars>>

\* app.FatalIfError(outcoder.Encode(outfile, &data), "encoding")
\* The encoder writes the document whole, or fails having written nothing
\* or a part of it.
Encode ==
    /\ pc = "encode"
    /\ IF outcoder = 0 \/ outfile = NilFile
       THEN Panic /\ UNCHANGED <<written, log>>
       ELSE IF coders[outcoder].Encode = Nil
       THEN Panic /\ UNCHANGED <<written, log>>
       ELSE \E part \in {"all", "some", "none"} :
              /\ Push("Encode")
              /\ written' = IF part = "none" THEN written
                            ELSE Append(written,
                                   [to |-> outfile, fn |-> coders[outcoder].Encode,
                                    doc |-> data, part |-> part])
              /\ FatalIfError(IF part = "all" THEN NoErr
                              ELSE Err("%s", coders[outcoder].Format), "encoding")
    /\ UNCHANGED <<coders, inputFormat, outputFormat, inputFile, outputFile,
                   incoder, outcoder, infile, outfile, incloser, outcloser,
                   defers, data, opened, closed, callvars>>

\* main returns or panics: the deferred calls run, last registered first.
\* defer func() { app.FatalIfError(outcloser(), "closing output file") }()
\* defer func() { app.FatalIfError(incloser(), "closing input file") }()
RunDeferred ==
    /\ pc \in {"return", "panic"}
    /\ defers # <<>>
    /\ LET d == Head(defers)
           closer == IF d = "incloser" THEN incloser ELSE outcloser
           f == IF d = "incloser" THEN infile ELSE outfile
           prefix == IF d = "incloser" THEN "closing input file"
                     ELSE "closing output file"
       IN  IF closer = "noop"
           THEN /\ Push("noop")
                /\ defers' = Tail(defers)
                /\ UNCHANGED <<closed, pc, status, diag>>
           ELSE \E ok \in BOOLEAN :
                  /\ Push("Close")
                  /\ closed' = closed \cup {f}
                  /\ IF ok
                     THEN defers' = Tail(defers) /\ UNCHANGED <<pc, status, diag>>
                     ELSE Fatal(prefix, Err("close %s", f.name)) /\ UNCHANGED defers
    /\ UNCHANGED <<coders, inputFormat, outputFormat, inputFile, outputFile,
                   incoder, outcoder, infile, outfile, incloser, outcloser,
                   data, written, opened, callvars>>

\* the process ends: status 0 after main returned, 2 after a panic
Exit ==
    /\ pc \in {"return", "panic"}
    /\ defers = <<>>
    /\ status' = IF pc = "return" THEN 0 ELSE 2
    /\ pc' = "exit"
    /\ UNCHANGED <<coders, inputFormat, outputFormat, inputFile, outputFile,
                   incoder, outcoder, infile, outfile, incloser, outcloser,
                   defers, data, written, opened, closed, diag, log, callvars>>

Next ==
    \/ ParseArgs
    \/ ResolveInput
    \/ ResolveOutput
    \/ OpenInput
    \/ OpenOutput
    \/ Decode
    \/ Encode
    \/ RunDeferred
    \/ Exit

\* the paths given with -i and -o
MainPaths ==
    { Empty, Dash, <<"a">>, <<"a", ".", "j", "s", "o", "n">>,
      <<"a", ".", "Y", "M", "L">>, <<"b", ".", "t", "o", "m", "l">>,
      <<"a", ".", "t", "x", "t">> }

InitMain(registries, files, explicit) ==
    /\ coders \in registries
    /\ inputFormat \in explicit
    /\ outputFormat \in explicit
    /\ inputFile \in files
    /\ outputFile \in files
    /\ pc = "parse"
    /\ incoder = 0 /\ outcoder = 0
    /\ infile = NilFile /\ outfile = NilFile
    /\ incloser = Nil /\ outcloser = Nil
    /\ defers = <<>> /\ data = "empty" /\ written = <<>>
    /\ opened = {} /\ closed = {}
    /\ status = 0 /\ diag = NoErr /\ log = <<>>
    /\ cfile = Empty /\ cformat = Empty
    /\ caction = "reading from stdin" /\ cret = CoderErr(NoErr, FALSE)

Init == InitMain({Coders}, MainPaths, {Empty, YAML, JSON, TOML, FOO})

Spec == Init /\ [][Next]_vars

\* registries whose bindings may lack an operation, or the format toml
Bindings(f, r, w) ==
    { [Format |-> f, Decode |-> d, Encode |-> e] : d \in {r, Nil}, e \in {w, Nil} }

Registries ==
    LET ys == Bindings(YAML, "readYAML", "writeYAML")
        js == Bindings(JSON, "readJSON", "writeJSON")
        ts == Bindings(TOML, "readTOML", "writeTOML")
    IN  { <<y, j, t>> : y \in ys, j \in js, t \in ts }
            \cup { <<y, j>> : y \in ys, j \in js }

RegistryPaths ==
    { Empty, <<"a", ".", "j", "s", "o", "n">>, <<"b", ".", "t", "o", "m", "l">> }

InitRegistry == InitMain(Registries, RegistryPaths, {Empty, YAML, TOML})

SpecRegistry == InitRegistry /\ [][Next]_vars

-----------------------------------------------------------------------------
(* Properties of a run *)

IsStd(path) == path = Empty \/ path = Dash

Failed(prefix) == diag # NoErr /\ Head(diag.msg) = prefix

Has(e) == \E i \in DOMAIN log : log[i] = e

Count(e) == Cardinality({ i \in DOMAIN log : log[i] = e })

\* C4: when decoding fails the run aborts with the decoding error, Encode
\* is never called and nothing is written to the output stream.
C4_DecodeFailure ==
    Failed("decoding") =>
        /\ pc = "exit"
        /\ status = 1
        /\ ~Has("Encode")
        /\ written = <<>>

C4_Witness ==
    /\ Failed("decoding")
    /\ pc = "exit"
    /\ inputFormat = JSON
    /\ outfile = [opener |-> "os.Create", name |-> <<"b", ".", "t", "o", "m", "l">>]

\* a format that does not resolve: an explicit token outside the formats,
\* or a path from which coder cannot settle a format
ResolutionFails ==
    \/ inputFormat \notin formats \cup {Empty}
    \/ outputFormat \notin formats \cup {Empty}
    \/ coder(inputFile, inputFormat, "reading from stdin").err # NoErr
    \/ coder(outputFile, outputFormat, "writing to stdout").err # NoErr

NoFileTouched ==
    /\ opened = {}
    /\ ~Has("os.Open")
    /\ ~Has("os.Create")
    /\ ~Has("file(input)")
    /\ ~Has("file(output)")

\* C5: a run whose input or output format does not resolve never opens,
\* creates or truncates a file, and is rejected: it ends with status 1
\* and the diagnostic of the parser or of the resolution.
C5_RejectedBeforeIO ==
    /\ ResolutionFails =>
          /\ NoFileTouched
          /\ pc \in {"parse", "incoder", "outcoder", "exit"}
          /\ pc = "exit" =>
                /\ status = 1
                /\ Failed("parse") \/ Failed("input") \/ Failed("output")
    /\ (Failed("parse") \/ Failed("input") \/ Failed("output")) =>
          /\ ResolutionFails
          /\ NoFileTouched

C5_Witness ==
    /\ pc = "exit"
    /\ Failed("output")
    /\ inputFile = <<"a", ".", "j", "s", "o", "n">>
    /\ outputFile = <<"a", ".", "t", "x", "t">>
    /\ opened = {}

\* both formats were resolved and accepted
Accepted == pc \in {"openin", "openout", "decode", "encode", "return"}

\* C6: for every registry, a run is rejected with the unsupported format
\* diagnostic exactly when the binding of the input format has no Decode
\* or the binding of the output format has no Encode; a binding that lacks
\* only the other operation is accepted, and no nil operation is called.
C6_UnsupportedDirection ==
    /\ pc # "panic"
    /\ Accepted =>
          /\ coders[incoder].Decode # Nil
          /\ coders[outcoder].Encode # Nil
    /\ Failed("input format %s not supported for decoding") =>
          coders[incoder].Decode = Nil
    /\ Failed("output format %s not supported for encoding") =>
          coders[outcoder].Encode = Nil

\* C7: every file the run opened is closed when the process exits.
C7_ClosedOnEveryExit ==
    pc = "exit" => opened \subseteq closed

\* C8: for a path that is empty or "-" the run uses the standard stream,
\* never calls the opener for it and never closes it; its closer does
\* nothing and returns no error.
C8_StandardStreams ==
    /\ Stdin \notin closed /\ Stdout \notin closed
    /\ IsStd(inputFile) =>
          /\ ~Has("os.Open")
          /\ ~Failed("opening input") /\ ~Failed("closing input file")
          /\ Has("file(input)") => infile = Stdin /\ incloser = "noop"
          /\ \A f \in opened \cup closed : f.opener # "os.Open"
    /\ IsStd(outputFile) =>
          /\ ~Has("os.Create")
          /\ ~Failed("opening output") /\ ~Failed("closing output file")
          /\ Has("file(output)") => outfile = Stdout /\ outcloser = "noop"
          /\ \A f \in opened \cup closed : f.opener # "os.Create"
    /\ (IsStd(inputFile) /\ IsStd(outputFile)) => ~Has("Close")

C8_Witness ==
    /\ pc = "exit" /\ status = 0
    /\ inputFile = Dash /\ outputFile = Empty
    /\ infile = Stdin /\ outfile = Stdout
    /\ Count("noop") = 2

Phases == <<"coder(input)", "coder(output)", "file(input)", "file(output)",
            "Decode", "Encode">>

IsPhase(e) == \E i \in DOMAIN Phases : Phases[i] = e

PhaseLog == SelectSeq(log, IsPhase)

\* the number of phases done when main is at p
PhasesBefore(p) ==
    CASE p = "parse" -> 0
      [] p = "incoder" -> 0
      [] p = "outcoder" -> 1
      [] p = "openin" -> 2
      [] p = "openout" -> 3
      [] p = "decode" -> 4
      [] p = "encode" -> 5
      [] p = "return" -> 6

\* the phase whose failure gives the diagnostic prefix
PhaseOfFailure ==
    { <<"input", 1>>, <<"output", 2>>, <<"opening input", 3>>,
      <<"opening output", 4>>, <<"decoding", 5>>, <<"encoding", 6>> }

\* C10: the phases run in the order resolve input, resolve output, open
\* input, open output, decode, encode, each at most once and only after
\* the earlier ones succeeded; the failing phase is the last one run; a
\* successful run has one Decode, then one Encode of the decoded document.
C10_PhaseOrder ==
    /\ Len(PhaseLog) <= Len(Phases)
    /\ PhaseLog = SubSeq(Phases, 1, Len(PhaseLog))
    /\ pc # "exit" =>
          /\ diag = NoErr
          /\ Len(PhaseLog) = PhasesBefore(pc)
    /\ \A pf \in PhaseOfFailure :
          Failed(pf[1]) => (pc = "exit" /\ status = 1 /\ Len(PhaseLog) = pf[2])
    /\ (pc = "exit" /\ status = 0) =>
          /\ PhaseLog = Phases
          /\ Len(written) = 1
          /\ written[1].doc = data
          /\ written[1].part = "all"
          /\ written[1].to = outfile

C10_Witness ==
    /\ pc = "exit" /\ status = 0
    /\ inputFile = <<"a", ".", "Y", "M", "L">>
    /\ outputFile = <<"b", ".", "t", "o", "m", "l">>
    /\ data = "doc1"
    /\ written[1].fn = "writeTOML"

-----------------------------------------------------------------------------
(* coder as a function of its arguments *)

MaxStem == 2

StemChars == {"a", "/", ".", "-"}

Stems == UNION { [1..n -> StemChars] : n \in 0..MaxStem }

Suffixes ==
    { Empty, <<".">>, <<"j", "s", "o", "n">>,
      <<".", "j", "s", "o", "n">>, <<".", "J", "S", "O", "N">>,
      <<".", "J", "s", "o", "n">>, <<".", "j", "s">>, <<".", "J", "S">>,
      <<".", "y", "a", "m", "l">>, <<".", "Y", "A", "M", "L">>,
      <<".", "y", "m", "l">>, <<".", "Y", "m", "l">>,
      <<".", "t", "o", "m", "l">>, <<".", "T", "O", "M", "L">>,
      <<".", "t", "m", "l">>, <<".", "T", "M", "L">>,
      <<".", "t", "x", "t">>, <<".", "j", "s", "o">>, <<".", "j">>,
      <<".", "j", "s", "o", "n", "x">>, <<".", "y", "a", "m", "l", ".">>,
      <<".", "t", "o", "m", "l", "/">>, <<".", "j", "s", "/", "a">>,
      <<".", "f", "o", "o">> }

Paths == { stem \o suffix : stem \in Stems, suffix \in Suffixes }

ExplicitFormats == {Empty, YAML, JSON, TOML, FOO}

Actions == {"reading from stdin", "writing to stdout"}

NoRet == CoderErr(NoErr, FALSE)

InitCall ==
    /\ coders = Coders
    /\ cfile \in Paths
    /\ cformat \in ExplicitFormats
    /\ caction \in Actions
    /\ cret = NoRet
    /\ pc = "call"
    /\ inputFormat = Empty /\ outputFormat = Empty
    /\ inputFile = Empty /\ outputFile = Empty
    /\ incoder = 0 /\ outcoder = 0
    /\ infile = NilFile /\ outfile = NilFile
    /\ incloser = Nil /\ outcloser = Nil
    /\ defers = <<>> /\ data = "empty" /\ written = <<>>
    /\ opened = {} /\ closed = {}
    /\ status = 0 /\ diag = NoErr /\ log = <<>>

CallCoder ==
    /\ pc = "call"
    /\ cret' = coder(cfile, cformat, caction)
    /\ pc' = "returned"
    /\ UNCHANGED <<coders, inputFormat, outputFormat, inputFile, outputFile,
                   incoder, outcoder, infile, outfile, incloser, outcloser,
                   defers, data, written, opened, closed, status, diag, log,
                   cfile, cformat, caction>>

NextCall == CallCoder

SpecCoder == InitCall /\ [][NextCall]_vars

-----------------------------------------------------------------------------
(* What the specification calls the extension of a path: the characters   *)
(* after the last dot of the last element of the path.                    *)

DotsOfLastElement(p) ==
    { i \in DOMAIN p : p[i] = "." /\ \A j \in i..Len(p) : p[j] # "/" }

HasExtension(p) == DotsOfLastElement(p) # {}

ExtensionOf(p) ==
    LET k == CHOOSE i \in DotsOfLastElement(p) :
                 \A j \in DotsOfLastElement(p) : j <= i
    IN  SubSeq(p, k + 1, Len(p))

UpperOf(c) ==
    IF \E i \in DOMAIN LowerChars : LowerChars[i] = c
    THEN UpperChars[CHOOSE i \in DOMAIN LowerChars : LowerChars[i] = c]
    ELSE c

\* s is t up to the case of its letters (t is lower case)
EqualFold(s, t) ==
    /\ Len(s) = Len(t)
    /\ \A i \in DOMAIN s : s[i] = t[i] \/ s[i] = UpperOf(t[i])

\* the extension alias table, with the identifiers themselves
Canonical ==
    { <<JSON, JSON>>, <<YAML, YAML>>, <<TOML, TOML>>,
      <<JS, JSON>>, <<YML, YAML>>, <<TML, TOML>> }

Recognized(p) ==
    HasExtension(p) /\ \E a \in Canonical : EqualFold(ExtensionOf(p), a[1])

Returned == pc = "returned"

\* C1: with no explicit format and a path other than "" and "-", coder
\* returns the codec of the alias-normalized identifier when the lower-cased
\* extension is one of json, yaml, toml, yml, tml, js, and otherwise fails
\* with the error of guessformat, 'can not detect format from file ...
\* extension'.
C1_ExtensionInference ==
    (Returned /\ cformat = Empty /\ cfile # Empty /\ cfile # Dash) =>
        /\ cret.guessed
        /\ \A a \in Canonical :
              (HasExtension(cfile) /\ EqualFold(ExtensionOf(cfile), a[1])) =>
                  /\ cret.err = NoErr
                  /\ cret.c # 0
                  /\ coders[cret.c].Format = a[2]
        /\ ~Recognized(cfile) =>
              /\ cret.c = 0
              /\ cret.err = Wrap("guessing format",
                     Err("can not detect format from file %s extension", cfile))

C1_Witness ==
    /\ Returned /\ cformat = Empty
    /\ cfile = <<"/", "a", ".", "J", "S">>
    /\ cret.c # 0 /\ coders[cret.c].Format = JSON

\* C2: for every path and every explicit format json, yaml or toml, coder
\* returns the codec of that format, and guessformat is not called.
C2_ExplicitOverride ==
    (Returned /\ cformat \in {JSON, YAML, TOML}) =>
        /\ cret.err = NoErr
        /\ cret.c # 0
        /\ coders[cret.c].Format = cformat
        /\ ~cret.guessed

C2_Witness ==
    /\ Returned /\ cformat = TOML
    /\ cfile = <<"a", ".", "j", "s", "o", "n">>
    /\ coders[cret.c].Format = TOML

\* C3: with no explicit format and a path that is empty or "-", coder fails
\* with 'format is required when <action>', carrying the action of the
\* caller, and returns no codec.
C3_MissingFormat ==
    (Returned /\ cformat = Empty /\ cfile \in {Empty, Dash}) =>
        /\ cret.c = 0
        /\ cret.err = Err("format is required when %s", <<caction>>)
        /\ ~cret.guessed

C3_Witness ==
    /\ Returned /\ cformat = Empty /\ cfile = Dash
    /\ caction = "writing to stdout"
    /\ cret.err = Err("format is required when %s", <<"writing to stdout">>)

=============================================================================
